---- MODULE Spec2Model ----
(***************************************************************************)
(* Model of the expense / income ledger of src/main.py: two SQLite tables  *)
(* (expenses, income) with INTEGER PRIMARY KEY AUTOINCREMENT ids and the   *)
(* tool handlers that insert, read, edit and delete their rows.            *)
(*                                                                         *)
(* Text values are sequences of character codes, compared the way SQLite   *)
(* compares TEXT under the BINARY collation (memcmp, then length).         *)
(* Amounts are fixed-point integers in thousandths.                        *)
(***************************************************************************)
EXTENDS Integers, Sequences, FiniteSets, TLC

VARIABLES
    expenses,         \* table expenses: rowid -> row
    income,           \* table income: rowid -> row
    sqlite_sequence,  \* AUTOINCREMENT bookkeeping: table name -> largest rowid ever used
    last,             \* the handler call that ran last: name, arguments, result, statements
    returned,         \* history: table name -> ids returned by the creates so far
    deleted,          \* history: table name -> ids whose row a delete has removed
    calls,            \* number of handler calls so far
    tasks             \* the handler calls running as interleaved coroutines, in start order

vars == <<expenses, income, sqlite_sequence, last, returned, deleted, calls, tasks>>

----------------------------------------------------------------------------
(* Bounds *)

\* Handler calls in one run.
MaxCalls == 3
\* Length of the id list handed to bulk_delete_expenses.
MaxIdsLen == 2

----------------------------------------------------------------------------
(* Values *)

EmptyStr == << >>

\* Dates are opaque strings: "1" < "10" < "2" as strings, not as numbers.
Dates == { <<1>>, <<1, 0>>, <<2>> }

\* Ids a caller names.
IdArgs == { 1, 2 }

ExpenseColumns == {"date", "amount", "category", "subcategory", "note"}
IncomeColumns == {"date", "amount", "source", "note"}

\* The mapping f cut down to the keys in names.
Restrict(f, names) == [ c \in names |-> f[c] ]

\* Keyword arguments are mappings from the parameters the caller names to their
\* values; a parameter left at its default is absent from the mapping.
\* Amounts are in thousandths (-0.004, 2.500); category "food" / "rent",
\* source "job" / "gift", subcategory "s", note "n" as character codes.
AddExpenseSeeds ==
    { [ amount |-> -4, category |-> <<102, 111, 111, 100>> ],
      [ amount |-> 2500, category |-> <<102, 111, 111, 100>>, subcategory |-> <<115>> ],
      [ amount |-> 2500, category |-> <<114, 101, 110, 116>>, subcategory |-> <<115>>,
        note |-> <<110>> ] }
AddIncomeSeeds ==
    { [ amount |-> -4, source |-> <<106, 111, 98>> ],
      [ amount |-> 2500, source |-> <<103, 105, 102, 116>>, note |-> <<110>> ] }

WithDate(args, date) ==
    [ c \in (DOMAIN args) \cup {"date"} |-> IF c = "date" THEN date ELSE args[c] ]

AddExpenseInputs == { WithDate(a, d) : a \in AddExpenseSeeds, d \in Dates }
AddIncomeInputs == { WithDate(a, d) : a \in AddIncomeSeeds, d \in Dates }

\* The values an edit sets; subcategory is set to the empty string.
ExpensePatchValues ==
    [ date |-> <<1, 0>>, amount |-> 2500, category |-> <<114, 101, 110, 116>>,
      subcategory |-> EmptyStr, note |-> <<110>> ]
IncomePatchValues ==
    [ date |-> <<1, 0>>, amount |-> 2500, source |-> <<103, 105, 102, 116>>,
      note |-> EmptyStr ]

ExpensePatches == { Restrict(ExpensePatchValues, s) : s \in SUBSET ExpenseColumns }
IncomePatches == { Restrict(IncomePatchValues, s) : s \in SUBSET IncomeColumns }

RECURSIVE SeqsUpTo(_, _)
SeqsUpTo(S, n) ==
    IF n = 0 THEN { << >> }
    ELSE LET shorter == SeqsUpTo(S, n - 1)
         IN  shorter \cup { Append(s, x) : s \in shorter, x \in S }

IdLists == SeqsUpTo(IdArgs, MaxIdsLen)

----------------------------------------------------------------------------
(* Storage engine *)

SetMax(S) == CHOOSE m \in S : \A x \in S : x <= m

\* Largest rowid in use, 0 for an empty table.
MaxRowid(table) == IF DOMAIN table = {} THEN 0 ELSE SetMax(DOMAIN table)

\* Without AUTOINCREMENT: one more than the largest rowid now in the table.
NextRowidReusing(table, seq) == MaxRowid(table) + 1

\* INTEGER PRIMARY KEY AUTOINCREMENT: one more than the largest rowid the
\* table has ever held.
NextRowid(table, seq) ==
    (IF MaxRowid(table) > seq THEN MaxRowid(table) ELSE seq) + 1

\* DELETE FROM table WHERE id IN ids.
DeleteRows(table, ids) == [ i \in (DOMAIN table) \ ids |-> table[i] ]

\* cursor.rowcount of that DELETE.
Rowcount(table, ids) == Cardinality((DOMAIN table) \cap ids)

Range(s) == { s[k] : k \in 1 .. Len(s) }

----------------------------------------------------------------------------
(* Handlers *)

\* What a handler call leaves behind for its caller and for the store's log:
\* the tool and its arguments, the returned mapping (keys a result does not
\* carry are 0 / the empty string) and the statements the call issued.
Call(op, table, id, args, status, message, count, stmts) ==
    [ op |-> op, table |-> table, id |-> id, args |-> args, status |-> status,
      message |-> message, deleted_count |-> count, stmts |-> stmts ]

\* Python defaults of add_expense / add_income for the optional parameters.
WithDefaults(args, optional) ==
    [ c \in (DOMAIN args) \cup optional |-> IF c \in DOMAIN args THEN args[c] ELSE EmptyStr ]

\* The same INSERT with subcategory and note bound in each other's place.
InsertRowSwapped(table, id, row) ==
    [ i \in (DOMAIN table) \cup {id} |->
        IF i # id THEN table[i]
        ELSE IF "subcategory" \in DOMAIN row
        THEN [ row EXCEPT !.subcategory = row.note, !.note = row.subcategory ]
        ELSE [ row EXCEPT !.note = row.source, !.source = row.note ] ]

\* INSERT INTO table(...) VALUES (...): the row under its new rowid.
InsertRow(table, id, row) ==
    [ i \in (DOMAIN table) \cup {id} |-> IF i = id THEN row ELSE table[i] ]

\* An existence check that never fails.
RowExistsAlways(table, id) == TRUE

\* SELECT id FROM table WHERE id = ?, fetchone(): a row came back.
RowExists(table, id) == id \in DOMAIN table

\* SET col = ? for the named columns, the others keep their value.
SetColumns(row, patch) ==
    [ c \in DOMAIN row |-> IF c \in DOMAIN patch THEN patch[c] ELSE row[c] ]

\* The same UPDATE without its WHERE clause.
UpdateAllRows(table, id, patch) ==
    [ i \in DOMAIN table |-> SetColumns(table[i], patch) ]

\* UPDATE table SET ... WHERE id = ?.
UpdateRow(table, id, patch) ==
    [ i \in DOMAIN table |-> IF i = id THEN SetColumns(table[i], patch) ELSE table[i] ]

\* The status with rowcount >= 0 as its test.
DeleteStatusAnyCount(rowcount) == IF rowcount >= 0 THEN "ok" ELSE "error"

\* status of delete_expense / delete_income from cursor.rowcount.
DeleteStatus(rowcount) == IF rowcount > 0 THEN "ok" ELSE "error"

Remember(history, table, ids) == [ history EXCEPT ![table] = @ \cup ids ]

MoreCalls ==
    /\ calls < MaxCalls
    /\ calls' = calls + 1
    /\ UNCHANGED tasks

init_db ==
    /\ MoreCalls
    /\ last' = Call("init_db", "", 0, << >>, "ok", "", 0,
                     <<"connect", "PRAGMA", "CREATE TABLE IF NOT EXISTS",
                       "CREATE TABLE IF NOT EXISTS", "commit", "close">>)
    /\ UNCHANGED <<expenses, income, sqlite_sequence, returned, deleted>>

\* One id counter for both tables.
SequenceSharedAfterInsert(seq, table, id) == [ t \in DOMAIN seq |-> id ]

\* sqlite_sequence after an INSERT: the table's own entry takes the new rowid.
SequenceAfterInsert(seq, table, id) == [ seq EXCEPT ![table] = id ]

Add(table, rows, args) ==
    LET id == NextRowid(rows, sqlite_sequence[table])
    IN  /\ MoreCalls
        /\ sqlite_sequence' = SequenceAfterInsert(sqlite_sequence, table, id)
        /\ last' = Call(IF table = "expenses" THEN "add_expense" ELSE "add_income",
                         table, id, args, "ok", "", 0,
                         <<"connect", "INSERT", "commit", "close">>)
        /\ returned' = Remember(returned, table, {id})
        /\ UNCHANGED deleted

add_expense ==
    \E args \in AddExpenseInputs :
        /\ Add("expenses", expenses, args)
        /\ expenses' = InsertRow(expenses, NextRowid(expenses, sqlite_sequence["expenses"]),
                                  WithDefaults(args, {"subcategory", "note"}))
        /\ UNCHANGED income

add_income ==
    \E args \in AddIncomeInputs :
        /\ Add("income", income, args)
        /\ income' = InsertRow(income, NextRowid(income, sqlite_sequence["income"]),
                                WithDefaults(args, {"note"}))
        /\ UNCHANGED expenses

\* The rows of the edited table after edit_expense / edit_income, and the call's result.
EditRows(rows, id, patch) ==
    IF RowExists(rows, id) /\ DOMAIN patch # {} THEN UpdateRow(rows, id, patch) ELSE rows

EditCall(op, table, rows, id, patch) ==
    IF ~RowExists(rows, id)
    THEN Call(op, table, id, patch, "error", "not found", 0,
              <<"connect", "SELECT", "close">>)
    ELSE IF DOMAIN patch = {}
    THEN Call(op, table, id, patch, "error", "No fields to update", 0,
              <<"connect", "SELECT", "close">>)
    ELSE Call(op, table, id, patch, "ok", "updated successfully", 0,
              <<"connect", "SELECT", "UPDATE", "commit", "close">>)

edit_expense ==
    \E expense_id \in IdArgs, patch \in ExpensePatches :
        /\ MoreCalls
        /\ expenses' = EditRows(expenses, expense_id, patch)
        /\ last' = EditCall("edit_expense", "expenses", expenses, expense_id, patch)
        /\ UNCHANGED <<income, sqlite_sequence, returned, deleted>>

edit_income ==
    \E income_id \in IdArgs, patch \in IncomePatches :
        /\ MoreCalls
        /\ income' = EditRows(income, income_id, patch)
        /\ last' = EditCall("edit_income", "income", income, income_id, patch)
        /\ UNCHANGED <<expenses, sqlite_sequence, returned, deleted>>

DeleteCall(op, table, rows, id) ==
    LET status == DeleteStatus(Rowcount(rows, {id}))
    IN  Call(op, table, id, << >>, status,
             IF status = "ok" THEN "deleted successfully" ELSE "not found", 0,
             <<"connect", "DELETE", "commit", "close">>)

delete_expense ==
    \E expense_id \in IdArgs :
        /\ MoreCalls
        /\ expenses' = DeleteRows(expenses, {expense_id})
        /\ last' = DeleteCall("delete_expense", "expenses", expenses, expense_id)
        /\ deleted' = Remember(deleted, "expenses", (DOMAIN expenses) \cap {expense_id})
        /\ UNCHANGED <<income, sqlite_sequence, returned>>

delete_income ==
    \E income_id \in IdArgs :
        /\ MoreCalls
        /\ income' = DeleteRows(income, {income_id})
        /\ last' = DeleteCall("delete_income", "income", income, income_id)
        /\ deleted' = Remember(deleted, "income", (DOMAIN income) \cap {income_id})
        /\ UNCHANGED <<expenses, sqlite_sequence, returned>>

\* The count of ids asked for, not of rows deleted.
BulkRequestedCount(rows, expense_ids) == Len(expense_ids)

\* deleted_count of bulk_delete_expenses: cursor.rowcount of the DELETE ... IN (...).
BulkDeletedCount(rows, expense_ids) == Rowcount(rows, Range(expense_ids))

bulk_delete_expenses ==
    \E expense_ids \in IdLists :
        /\ MoreCalls
        /\ IF Len(expense_ids) = 0
           THEN
             /\ last' = Call("bulk_delete_expenses", "expenses", 0, expense_ids, "error",
                              "No expense IDs provided", 0, << >>)
             /\ UNCHANGED <<expenses, income, sqlite_sequence, returned, deleted>>
           ELSE
             /\ expenses' = DeleteRows(expenses, Range(expense_ids))
             /\ last' = Call("bulk_delete_expenses", "expenses", 0, expense_ids, "ok",
                              "Successfully deleted", BulkDeletedCount(expenses, expense_ids),
                              <<"connect", "DELETE", "commit", "close">>)
             /\ deleted' = Remember(deleted, "expenses", (DOMAIN expenses) \cap Range(expense_ids))
             /\ UNCHANGED <<income, sqlite_sequence, returned>>

----------------------------------------------------------------------------
(* Read handlers: they change nothing, so they are operators on the tables *)

\* dict(zip(cols, row)) for the columns id, ... of one row.
RowDict(id, row) ==
    [ c \in {"id"} \cup DOMAIN row |-> IF c = "id" THEN id ELSE row[c] ]

\* SELECT ... WHERE id = ?, fetchone(), and the mapping returned for it.
get_expense(expense_id) ==
    IF RowExists(expenses, expense_id)
    THEN [ status |-> "ok", expense |-> RowDict(expense_id, expenses[expense_id]) ]
    ELSE [ status |-> "error", message |-> "not found" ]

get_income(income_id) ==
    IF RowExists(income, income_id)
    THEN [ status |-> "ok", income |-> RowDict(income_id, income[income_id]) ]
    ELSE [ status |-> "error", message |-> "not found" ]

\* memcmp of two TEXT values, then the shorter one first (BINARY collation):
\* -1, 0 or 1.
RECURSIVE StrCmp(_, _)
StrCmp(a, b) ==
    IF Len(a) = 0 \/ Len(b) = 0
    THEN (IF Len(a) = Len(b) THEN 0 ELSE IF Len(a) = 0 THEN -1 ELSE 1)
    ELSE IF Head(a) < Head(b) THEN -1
    ELSE IF Head(a) > Head(b) THEN 1
    ELSE StrCmp(Tail(a), Tail(b))

\* x BETWEEN lo AND hi without its upper end.
BetweenOpenEnd(x, lo, hi) == StrCmp(x, lo) >= 0 /\ StrCmp(x, hi) < 0

\* x BETWEEN lo AND hi, that is x >= lo AND x <= hi.
Between(x, lo, hi) == StrCmp(x, lo) >= 0 /\ StrCmp(x, hi) <= 0

SetMin(S) == CHOOSE m \in S : \A x \in S : m <= x

\* ORDER BY id ASC over the selected rowids.
RECURSIVE OrderById(_)
OrderById(ids) ==
    IF ids = {} THEN << >>
    ELSE <<SetMin(ids)>> \o OrderById(ids \ {SetMin(ids)})

\* SELECT ... WHERE date BETWEEN ? AND ? ORDER BY id ASC, fetchall(), one
\* mapping per row.
List(rows, start_date, end_date) ==
    LET ids == OrderById({ i \in DOMAIN rows : Between(rows[i].date, start_date, end_date) })
    IN  [ k \in 1 .. Len(ids) |-> RowDict(ids[k], rows[ids[k]]) ]

list_expenses(start_date, end_date) == List(expenses, start_date, end_date)
list_income(start_date, end_date) == List(income, start_date, end_date)

----------------------------------------------------------------------------
(* Aggregation: summaries and net cashflow, read handlers as well *)

\* The labels and filter values callers use.
Categories == { a.category : a \in AddExpenseSeeds }
Sources == { a.source : a \in AddIncomeSeeds }

\* The optional filter of summarize / summarize_income as keyword arguments:
\* left at None (absent), the empty string, or a label.
FilterArgs(name, labels) ==
    { << >> } \cup { [ c \in {name} |-> v ] : v \in labels \cup {EmptyStr} }

\* The amount of one of the rows, as a bare column in place of SUM(amount) gives.
AmountOfOneRow(rows, ids) ==
    IF ids = {} THEN 0 ELSE rows[SetMin(ids)].amount

\* SUM(amount) over the rows ids of a table, 0 for no row (COALESCE(..., 0)).
RECURSIVE SumAmounts(_, _)
SumAmounts(rows, ids) ==
    IF ids = {} THEN 0
    ELSE rows[SetMin(ids)].amount + SumAmounts(rows, ids \ {SetMin(ids)})

\* ORDER BY label ASC over the labels of the groups.
RECURSIVE OrderByLabel(_)
OrderByLabel(labels) ==
    IF labels = {} THEN << >>
    ELSE LET first == CHOOSE m \in labels : \A x \in labels : StrCmp(m, x) <= 0
         IN  <<first>> \o OrderByLabel(labels \ {first})

\* `if category:` / `if source:`: the argument was given and is not empty.
Truthy(kw, name) == name \in DOMAIN kw /\ Len(kw[name]) > 0

\* SELECT label, SUM(amount) AS total_amount FROM table WHERE date BETWEEN ? AND ?
\* [AND label = ?] GROUP BY label ORDER BY label ASC, one mapping per group.
Summarize(rows, label, start_date, end_date, kw) ==
    LET selected == { i \in DOMAIN rows :
                        /\ Between(rows[i].date, start_date, end_date)
                        /\ Truthy(kw, label) => rows[i][label] = kw[label] }
        labels == OrderByLabel({ rows[i][label] : i \in selected })
    IN  [ k \in 1 .. Len(labels) |->
            [ c \in {label, "total_amount"} |->
                IF c = label THEN labels[k]
                ELSE SumAmounts(rows, { i \in selected : rows[i][label] = labels[k] }) ] ]

summarize(start_date, end_date, kw) == Summarize(expenses, "category", start_date, end_date, kw)
summarize_income(start_date, end_date, kw) == Summarize(income, "source", start_date, end_date, kw)

\* round(x, 2) on thousandths: the nearest hundredth, a half going to the even one.
Round2(x) ==
    LET q == x \div 10
        r == x % 10
    IN  IF r < 5 THEN q * 10
        ELSE IF r > 5 THEN (q + 1) * 10
        ELSE IF q % 2 = 0 THEN q * 10 ELSE (q + 1) * 10

\* The status with net > 0 as its test.
CashflowStatusStrict(net) == IF net > 0 THEN "positive" ELSE "negative"

\* The status with its two words exchanged.
CashflowStatusExchanged(net) == IF net >= 0 THEN "negative" ELSE "positive"

\* "positive" if net >= 0 else "negative".
CashflowStatus(net) == IF net >= 0 THEN "positive" ELSE "negative"

\* SELECT COALESCE(SUM(amount), 0) FROM table WHERE date BETWEEN ? AND ?.
TotalInRange(rows, start_date, end_date) ==
    SumAmounts(rows, { i \in DOMAIN rows : Between(rows[i].date, start_date, end_date) })

\* The mapping net_cashflow returns for the two totals it has read.
CashflowResult(start_date, end_date, total_income, total_expenses) ==
    LET net == total_income - total_expenses
    IN  [ start_date |-> start_date, end_date |-> end_date,
          total_income |-> Round2(total_income),
          total_expenses |-> Round2(total_expenses),
          net_cashflow |-> Round2(net),
          status |-> CashflowStatus(net) ]

net_cashflow(start_date, end_date) ==
    CashflowResult(start_date, end_date,
                   TotalInRange(income, start_date, end_date),
                   TotalInRange(expenses, start_date, end_date))

----------------------------------------------------------------------------
(* Specification *)

Init ==
    /\ expenses = << >>
    /\ income = << >>
    /\ sqlite_sequence = [ t \in {"expenses", "income"} |-> 0 ]
    /\ last = Call("init_db", "", 0, << >>, "ok", "", 0,
                    <<"connect", "PRAGMA", "CREATE TABLE IF NOT EXISTS",
                      "CREATE TABLE IF NOT EXISTS", "commit", "close">>)
    /\ returned = [ t \in {"expenses", "income"} |-> {} ]
    /\ deleted = [ t \in {"expenses", "income"} |-> {} ]
    /\ calls = 0
    /\ tasks = << >>

Next ==
    \/ init_db
    \/ add_expense
    \/ add_income
    \/ edit_expense
    \/ edit_income
    \/ delete_expense
    \/ delete_income
    \/ bulk_delete_expenses

Spec == Init /\ [][Next]_vars

----------------------------------------------------------------------------
(* The handlers as coroutines: every await on the store is a step of its own,
   and the steps of different calls interleave. Each call has its own
   connection. The store is in WAL mode: a statement reads the state committed
   when it runs, the changes of a connection are seen by the others at its
   commit, and one connection writes at a time (a second writer waits). *)

\* The calls made in the interleaved runs.
TaskInputs ==
    << [ op |-> "add_expense", table |-> "expenses", id |-> 0,
        args |-> [ date |-> <<1>>, amount |-> -4, category |-> <<102, 111, 111, 100>> ] ],
      [ op |-> "add_expense", table |-> "expenses", id |-> 0,
        args |-> [ date |-> <<2>>, amount |-> 2500, category |-> <<114, 101, 110, 116>>,
                   note |-> <<110>> ] ],
      [ op |-> "add_income", table |-> "income", id |-> 0,
        args |-> [ date |-> <<1>>, amount |-> 2500, source |-> <<106, 111, 98>> ] ],
      [ op |-> "edit_expense", table |-> "expenses", id |-> 1, args |-> [ amount |-> 2500 ] ],
      [ op |-> "edit_income", table |-> "income", id |-> 1, args |-> [ amount |-> -4 ] ],
      [ op |-> "delete_expense", table |-> "expenses", id |-> 1, args |-> << >> ],
      [ op |-> "delete_income", table |-> "income", id |-> 1, args |-> << >> ],
      [ op |-> "bulk_delete_expenses", table |-> "expenses", id |-> 0, args |-> <<1>> ],
      [ op |-> "net_cashflow", table |-> "", id |-> 0,
        args |-> [ start_date |-> <<1>>, end_date |-> <<2>> ] ] >>

\* The statement a call awaits first; bulk_delete_expenses returns on an empty
\* list before it connects.
FirstPc(op, args) ==
    CASE op \in {"add_expense", "add_income"} -> "insert"
      [] op \in {"edit_expense", "edit_income"} -> "select"
      [] op \in {"delete_expense", "delete_income"} -> "delete"
      [] op = "bulk_delete_expenses" -> IF Len(args) = 0 THEN "return" ELSE "delete"
      [] op = "net_cashflow" -> "income_query"

\* A call that has just been entered: its arguments, its place in the code and
\* its locals (found, cur.rowcount, cur.lastrowid, the two totals), the
\* uncommitted tables of its connection, the statements it has issued, the
\* totals of the states committed between its two queries, and its result.
NewTask(input) ==
    [ op |-> input.op, table |-> input.table, id |-> input.id, args |-> input.args,
      pc |-> FirstPc(input.op, input.args),
      stmts |-> IF FirstPc(input.op, input.args) = "return" THEN << >> ELSE <<"connect">>,
      found |-> FALSE, rowcount |-> 0, lastrowid |-> 0,
      total_income |-> 0, total_expenses |-> 0,
      pending |-> << >>, seen |-> {}, result |-> << >> ]

Tables == [ expenses |-> expenses, income |-> income ]

\* No connection holds the write lock: none has executed a write it has not committed.
WriteLockFree == \A t \in DOMAIN tasks : tasks[t].pc # "commit"

\* The totals a net_cashflow would read from these tables.
TotalsOf(tables, args) ==
    << TotalInRange(tables.income, args.start_date, args.end_date),
       TotalInRange(tables.expenses, args.start_date, args.end_date) >>

\* A write goes straight to its return, without commit.
AfterWriteNoCommit(op) == "return"

\* Where a call goes after its INSERT, UPDATE or DELETE: await c.commit().
AfterWrite(op) == "commit"

\* The task after a write statement that left tables2 and sequence seq2 in its
\* connection, uncommitted.
Wrote(task, stmt, tables2, seq2, rowcount, lastrowid) ==
    [ task EXCEPT !.pc = AfterWrite(task.op),
                  !.stmts = Append(@, stmt),
                  !.pending = [ tables |-> tables2, sqlite_sequence |-> seq2 ],
                  !.rowcount = rowcount,
                  !.lastrowid = lastrowid ]

StartTask ==
    \E i \in DOMAIN TaskInputs :
        /\ calls < MaxCalls
        /\ calls' = calls + 1
        /\ tasks' = Append(tasks, NewTask(TaskInputs[i]))
        /\ UNCHANGED <<expenses, income, sqlite_sequence, last, returned, deleted>>

\* edit_expense / edit_income: SELECT id FROM table WHERE id = ?, fetchone().
SelectStep ==
    \E t \in DOMAIN tasks :
        /\ tasks[t].pc = "select"
        /\ LET found == RowExists(Tables[tasks[t].table], tasks[t].id)
           IN  tasks' = [ tasks EXCEPT ![t].found = found,
                                       ![t].stmts = Append(@, "SELECT"),
                                       ![t].pc = IF found /\ DOMAIN tasks[t].args # {}
                                                 THEN "update" ELSE "return" ]
        /\ UNCHANGED <<expenses, income, sqlite_sequence, last, returned, deleted, calls>>

\* add_expense / add_income: the INSERT.
InsertStep ==
    \E t \in DOMAIN tasks :
        /\ tasks[t].pc = "insert"
        /\ WriteLockFree
        /\ LET table == tasks[t].table
               id == NextRowid(Tables[table], sqlite_sequence[table])
               row == WithDefaults(tasks[t].args, IF table = "expenses"
                                                  THEN {"subcategory", "note"} ELSE {"note"})
           IN  tasks' = [ tasks EXCEPT ![t] =
                   Wrote(@, "INSERT",
                         [ Tables EXCEPT ![table] = InsertRow(@, id, row) ],
                         SequenceAfterInsert(sqlite_sequence, table, id), 1, id) ]
        /\ UNCHANGED <<expenses, income, sqlite_sequence, last, returned, deleted, calls>>

\* edit_expense / edit_income: the UPDATE ... WHERE id = ?.
UpdateStep ==
    \E t \in DOMAIN tasks :
        /\ tasks[t].pc = "update"
        /\ WriteLockFree
        /\ LET table == tasks[t].table
           IN  tasks' = [ tasks EXCEPT ![t] =
                   Wrote(@, "UPDATE",
                         [ Tables EXCEPT ![table] = UpdateRow(@, tasks[t].id, tasks[t].args) ],
                         sqlite_sequence, Rowcount(Tables[table], {tasks[t].id}), 0) ]
        /\ UNCHANGED <<expenses, income, sqlite_sequence, last, returned, deleted, calls>>

\* The ids a delete call names.
DeleteIds(task) ==
    IF task.op = "bulk_delete_expenses" THEN Range(task.args) ELSE {task.id}

\* delete_expense / delete_income / bulk_delete_expenses: the DELETE.
DeleteStep ==
    \E t \in DOMAIN tasks :
        /\ tasks[t].pc = "delete"
        /\ WriteLockFree
        /\ LET table == tasks[t].table
               ids == DeleteIds(tasks[t])
           IN  tasks' = [ tasks EXCEPT ![t] =
                   Wrote(@, "DELETE",
                         [ Tables EXCEPT ![table] = DeleteRows(@, ids) ],
                         sqlite_sequence, Rowcount(Tables[table], ids), 0) ]
        /\ UNCHANGED <<expenses, income, sqlite_sequence, last, returned, deleted, calls>>

\* await c.commit(): the connection's tables become the committed ones. Every
\* net_cashflow between its two queries has one more committed state behind it.
CommitStep ==
    \E t \in DOMAIN tasks :
        /\ tasks[t].pc = "commit"
        /\ expenses' = tasks[t].pending.tables.expenses
        /\ income' = tasks[t].pending.tables.income
        /\ sqlite_sequence' = tasks[t].pending.sqlite_sequence
        /\ deleted' = Remember(deleted, tasks[t].table,
                               (DOMAIN Tables[tasks[t].table])
                                   \ (DOMAIN tasks[t].pending.tables[tasks[t].table]))
        /\ tasks' = [ u \in DOMAIN tasks |->
                        IF u = t
                        THEN [ tasks[u] EXCEPT !.pc = "return",
                                               !.stmts = Append(@, "commit"),
                                               !.pending = << >> ]
                        ELSE IF tasks[u].pc = "expense_query"
                        THEN [ tasks[u] EXCEPT !.seen =
                                 @ \cup { TotalsOf(tasks[t].pending.tables, tasks[u].args) } ]
                        ELSE tasks[u] ]
        /\ UNCHANGED <<last, returned, calls>>

\* net_cashflow: the two SELECT COALESCE(SUM(amount), 0), income first.
QueryStep ==
    \E t \in DOMAIN tasks :
        /\ \/ /\ tasks[t].pc = "income_query"
              /\ tasks' = [ tasks EXCEPT
                     ![t].total_income = TotalInRange(income, tasks[t].args.start_date,
                                                      tasks[t].args.end_date),
                     ![t].seen = { TotalsOf(Tables, tasks[t].args) },
                     ![t].stmts = Append(@, "SELECT"),
                     ![t].pc = "expense_query" ]
           \/ /\ tasks[t].pc = "expense_query"
              /\ tasks' = [ tasks EXCEPT
                     ![t].total_expenses = TotalInRange(expenses, tasks[t].args.start_date,
                                                        tasks[t].args.end_date),
                     ![t].stmts = Append(@, "SELECT"),
                     ![t].pc = "return" ]
        /\ UNCHANGED <<expenses, income, sqlite_sequence, last, returned, deleted, calls>>

\* The id of the newest row of the table, as SELECT MAX(id) would give it.
LastRowidOfTable(task, rows) == MaxRowid(rows)

\* cur.lastrowid: the rowid of the INSERT this call's cursor has executed.
LastRowid(task, rows) == task.lastrowid

\* The mapping a call returns, from its locals.
TaskResult(task) ==
    LET stmts == IF task.stmts = << >> THEN << >> ELSE Append(task.stmts, "close")
        Answer(id, status, message, count) ==
            Call(task.op, task.table, id, task.args, status, message, count, stmts)
    IN  CASE task.op \in {"add_expense", "add_income"} ->
               Answer(LastRowid(task, Tables[task.table]), "ok", "", 0)
          [] task.op \in {"edit_expense", "edit_income"} ->
               IF ~task.found THEN Answer(task.id, "error", "not found", 0)
               ELSE IF DOMAIN task.args = {}
               THEN Answer(task.id, "error", "No fields to update", 0)
               ELSE Answer(task.id, "ok", "updated successfully", 0)
          [] task.op \in {"delete_expense", "delete_income"} ->
               Answer(task.id, DeleteStatus(task.rowcount),
                      IF DeleteStatus(task.rowcount) = "ok"
                      THEN "deleted successfully" ELSE "not found", 0)
          [] task.op = "bulk_delete_expenses" ->
               IF Len(task.args) = 0
               THEN Answer(0, "error", "No expense IDs provided", 0)
               ELSE Answer(0, "ok", "Successfully deleted", task.rowcount)
          [] task.op = "net_cashflow" ->
               CashflowResult(task.args.start_date, task.args.end_date,
                              task.total_income, task.total_expenses)

\* The call returns its mapping and its connection is closed.
ReturnStep ==
    \E t \in DOMAIN tasks :
        /\ tasks[t].pc = "return"
        /\ tasks' = [ tasks EXCEPT ![t].pc = "done",
                                    ![t].stmts = IF @ = << >> THEN @ ELSE Append(@, "close"),
                                    ![t].result = TaskResult(tasks[t]) ]
        /\ last' = IF tasks[t].op = "net_cashflow"
                    THEN Call("net_cashflow", "", 0, tasks[t].args,
                              TaskResult(tasks[t]).status, "", 0,
                              Append(tasks[t].stmts, "close"))
                    ELSE TaskResult(tasks[t])
        /\ returned' = IF tasks[t].op \in {"add_expense", "add_income"}
                        THEN Remember(returned, tasks[t].table, {TaskResult(tasks[t]).id})
                        ELSE returned
        /\ UNCHANGED <<expenses, income, sqlite_sequence, deleted, calls>>

NextConcurrent ==
    \/ StartTask
    \/ SelectStep
    \/ InsertStep
    \/ UpdateStep
    \/ DeleteStep
    \/ CommitStep
    \/ QueryStep
    \/ ReturnStep

SpecConcurrent == Init /\ [][NextConcurrent]_vars

----------------------------------------------------------------------------
(* Properties *)

Adds == {"add_expense", "add_income"}
Edits == {"edit_expense", "edit_income"}
Deletes == {"delete_expense", "delete_income"}
NotFound == [ status |-> "error", message |-> "not found" ]

\* C1: the id a successful create returns is strictly greater than every id a
\* create of the same ledger returned before, also those whose records have
\* been deleted since (single or bulk): no id is used twice.
C1_CreatedIdExceedsEarlierIds ==
    [][ last'.op \in Adds =>
          /\ last'.status = "ok"
          /\ \A i \in returned[last'.table] : last'.id > i ]_vars

\* A create in the expense ledger after one of its records was deleted.
C1_CreateAfterDelete ==
    /\ last.op = "add_expense"
    /\ deleted["expenses"] # {}
    /\ Cardinality(returned["expenses"]) >= 2

\* rows2 is rows with exactly the columns named in patch of row id set to the
\* patch's values: same ids, every other row and every other column as before.
OnlyNamedColumnsChanged(rows, rows2, id, patch) ==
    /\ id \in DOMAIN rows
    /\ DOMAIN rows2 = DOMAIN rows
    /\ \A i \in DOMAIN rows :
          /\ DOMAIN rows2[i] = DOMAIN rows[i]
          /\ \A c \in DOMAIN rows[i] :
                rows2[i][c] = IF i = id /\ c \in DOMAIN patch THEN patch[c] ELSE rows[i][c]

\* C2: a successful edit with a non-empty patch changes exactly the fields the
\* patch names, to the patch's values; the record's id, its other fields, every
\* other record of the ledger and the whole other ledger stay as they were.
C2_EditChangesOnlyNamedFields ==
    [][ /\ (last'.op = "edit_expense" /\ last'.status = "ok") =>
              /\ DOMAIN last'.args # {}
              /\ OnlyNamedColumnsChanged(expenses, expenses', last'.id, last'.args)
              /\ income' = income
        /\ (last'.op = "edit_income" /\ last'.status = "ok") =>
              /\ DOMAIN last'.args # {}
              /\ OnlyNamedColumnsChanged(income, income', last'.id, last'.args)
              /\ expenses' = expenses ]_vars

\* A successful edit of some but not all fields of one of two expense records.
C2_PartialEditBesideAnotherRecord ==
    /\ last.op = "edit_expense"
    /\ last.status = "ok"
    /\ DOMAIN last.args \notin {{}, ExpenseColumns}
    /\ Cardinality(DOMAIN expenses) = 2

\* C3: an edit with an empty patch returns the validation rejection
\* 'No fields to update' for every id, whether or not a record has that id
\* (and leaves both ledgers as they were).
C3_EmptyPatchAlwaysRejectedAsEmpty ==
    (last.op \in Edits /\ DOMAIN last.args = {}) =>
        (last.status = "error" /\ last.message = "No fields to update")

\* C4: an edit with an empty patch and a bulk delete with an empty id list
\* return their error without having opened a connection or executed any
\* statement.
C4_RejectedBeforeAnyStatement ==
    (\/ last.op \in Edits /\ DOMAIN last.args = {}
     \/ last.op = "bulk_delete_expenses" /\ Len(last.args) = 0) =>
        (last.status = "error" /\ last.stmts = << >>)

\* C5: an edit with a non-empty patch on an id without a record in that ledger
\* returns the not-found error, executes neither UPDATE nor commit and leaves
\* both ledgers unchanged.
C5_EditOfMissingIdIsNotFound ==
    [][ (/\ last'.op \in Edits
         /\ DOMAIN last'.args # {}
         /\ last'.id \notin DOMAIN (IF last'.table = "expenses" THEN expenses ELSE income)) =>
          /\ last'.status = "error"
          /\ last'.message = "not found"
          /\ "UPDATE" \notin Range(last'.stmts)
          /\ "commit" \notin Range(last'.stmts)
          /\ expenses' = expenses
          /\ income' = income ]_vars

\* A not-found edit with a non-empty patch while the ledger holds another record.
C5_MissingIdEdited ==
    /\ last.op = "edit_expense"
    /\ DOMAIN last.args # {}
    /\ last.message = "not found"
    /\ expenses # << >>

\* rows2 is rows without the rows of ids, the other rows as before.
OnlyRowsRemoved(rows, rows2, ids) ==
    /\ DOMAIN rows2 = (DOMAIN rows) \ ids
    /\ \A i \in DOMAIN rows2 : rows2[i] = rows[i]

\* C6: a delete returns ok exactly when a record with the id existed right
\* before the DELETE, and the not-found error otherwise; on ok that one record
\* is removed and every other record of both ledgers is unchanged, on
\* not-found nothing changes.
C6_DeleteOkIffRecordExisted ==
    [][ /\ last'.op = "delete_expense" =>
              /\ last'.status = (IF last'.id \in DOMAIN expenses THEN "ok" ELSE "error")
              /\ last'.status = "error" => last'.message = "not found"
              /\ OnlyRowsRemoved(expenses, expenses', {last'.id})
              /\ income' = income
        /\ last'.op = "delete_income" =>
              /\ last'.status = (IF last'.id \in DOMAIN income THEN "ok" ELSE "error")
              /\ last'.status = "error" => last'.message = "not found"
              /\ OnlyRowsRemoved(income, income', {last'.id})
              /\ expenses' = expenses ]_vars

\* A delete that removed one of two expense records.
C6_DeleteOfOneOfTwoRecords ==
    /\ last.op = "delete_expense"
    /\ last.status = "ok"
    /\ deleted["expenses"] = {last.id}
    /\ expenses # << >>

C8_BulkDeleteCountsExistingIds ==
    [][ (last'.op = "bulk_delete_expenses" /\ Len(last'.args) > 0) =>
          /\ last'.status = "ok"
          /\ last'.deleted_count = Cardinality(Range(last'.args) \cap DOMAIN expenses)
          /\ OnlyRowsRemoved(expenses, expenses', Range(last'.args))
          /\ income' = income ]_vars

\* A bulk delete of two different ids of which one had a record.
C8_BulkDeleteOfPartlyMissingIds ==
    /\ last.op = "bulk_delete_expenses"
    /\ Len(last.args) = 2
    /\ last.args[1] # last.args[2]
    /\ last.deleted_count = 1

\* The record a create with these arguments stores under id.
CreatedRecord(id, args, columns) ==
    [ c \in {"id"} \cup columns |->
        IF c = "id" THEN id ELSE IF c \in DOMAIN args THEN args[c] ELSE EmptyStr ]

\* The call edits or deletes the record id of the ledger.
Touches(call, table, id) ==
    /\ call.table = table
    /\ \/ call.op \in Edits \cup Deletes /\ call.id = id
       \/ call.op = "bulk_delete_expenses" /\ id \in Range(call.args)

\* C9: get(id) after a create that returned id answers ok with the record of
\* that id whose fields are the create's inputs, omitted optional fields being
\* the empty string; and calls that neither edit nor delete that id leave the
\* answer as it is.
C9_GetReturnsWhatCreateStored ==
    [][ /\ \A i \in 1 .. MaxCalls :
              /\ (last'.op = "add_expense" /\ last'.id = i) =>
                    get_expense(i)' =
                        [ status |-> "ok",
                          expense |-> CreatedRecord(i, last'.args, ExpenseColumns) ]
              /\ (last'.op = "add_income" /\ last'.id = i) =>
                    get_income(i)' =
                        [ status |-> "ok",
                          income |-> CreatedRecord(i, last'.args, IncomeColumns) ]
        /\ \A i \in DOMAIN expenses :
              ~Touches(last', "expenses", i) => get_expense(i)' = get_expense(i)
        /\ \A i \in DOMAIN income :
              ~Touches(last', "income", i) => get_income(i)' = get_income(i) ]_vars

\* A create that left out the optional fields, got at after a later call.
C9_CreateWithOmittedFieldsThenOtherCall ==
    /\ last.op = "add_income"
    /\ 1 \in DOMAIN expenses
    /\ expenses[1].subcategory = EmptyStr
    /\ expenses[1].note = EmptyStr
    /\ get_expense(1).status = "ok"

\* a <= b for strings: a is a prefix of b, or a is smaller where they first differ.
LexLeq(a, b) ==
    \/ /\ Len(a) <= Len(b)
       /\ \A k \in 1 .. Len(a) : a[k] = b[k]
    \/ \E k \in 1 .. Len(a) :
          /\ k <= Len(b)
          /\ a[k] < b[k]
          /\ \A j \in 1 .. (k - 1) : a[j] = b[j]

\* result is the records of rows dated within [start, end], each once, by
\* ascending id.
ListsRange(rows, result, start, end) ==
    LET want == { i \in DOMAIN rows : LexLeq(start, rows[i].date) /\ LexLeq(rows[i].date, end) }
    IN  /\ Len(result) = Cardinality(want)
        /\ \A i \in want : \E k \in 1 .. Len(result) :
              /\ result[k].id = i
              /\ \A c \in DOMAIN rows[i] : result[k][c] = rows[i][c]
        /\ \A k \in 1 .. (Len(result) - 1) : result[k].id < result[k + 1].id
        /\ want = {} => result = << >>

\* C10: list(start_date, end_date) returns exactly the records of the ledger
\* whose date d has start_date <= d <= end_date as strings (both ends
\* included), each once, in strictly ascending id order whatever their dates,
\* and the empty sequence when none matches.
C10_ListIsInclusiveRangeByAscendingId ==
    \A start \in Dates, end \in Dates :
        /\ ListsRange(expenses, list_expenses(start, end), start, end)
        /\ ListsRange(income, list_income(start, end), start, end)

\* Two listed expenses whose dates, one of them edited, run against their ids.
C10_EditedDatesAgainstIdOrder ==
    /\ last.op = "edit_expense"
    /\ last.status = "ok"
    /\ "date" \in DOMAIN last.args
    /\ DOMAIN expenses = {1, 2}
    /\ expenses[1].date # expenses[2].date
    /\ LexLeq(expenses[2].date, expenses[1].date)
    /\ Len(list_expenses(expenses[2].date, expenses[1].date)) = 2

\* The sum of the amounts of the listed records whose label is value.
RECURSIVE ListedTotal(_, _, _)
ListedTotal(listed, label, value) ==
    IF Len(listed) = 0 THEN 0
    ELSE (IF Head(listed)[label] = value THEN Head(listed).amount ELSE 0)
         + ListedTotal(Tail(listed), label, value)

\* result has one row per label of the listed records, in strictly ascending
\* label order, each with the sum of the amounts listed under that label.
SummaryOfListed(result, listed, label) ==
    /\ \A j \in 1 .. Len(listed) : \E k \in 1 .. Len(result) :
          result[k][label] = listed[j][label]
    /\ \A k \in 1 .. Len(result) :
          /\ \E j \in 1 .. Len(listed) : listed[j][label] = result[k][label]
          /\ result[k].total_amount = ListedTotal(listed, label, result[k][label])
    /\ \A k \in 1 .. (Len(result) - 1) :
          /\ result[k][label] # result[k + 1][label]
          /\ LexLeq(result[k][label], result[k + 1][label])

\* C11: without a filter, summarize(d1, d2) / summarize_income(d1, d2) returns
\* one row per distinct category / source among the records list(d1, d2)
\* returns, with the sum of those records' amounts; rows are in ascending
\* label order and no label without a matching record appears.
C11_SummaryGroupsListedRecords ==
    \A start \in Dates, end \in Dates :
        /\ SummaryOfListed(summarize(start, end, << >>),
                           list_expenses(start, end), "category")
        /\ SummaryOfListed(summarize_income(start, end, << >>),
                           list_income(start, end), "source")

\* Three expenses in two categories, two of them summed into one row.
C11_TwoGroupsOneOfTwoRecords ==
    LET result == summarize(<<1>>, <<2>>, << >>)
    IN  /\ Cardinality(DOMAIN expenses) = 3
        /\ Len(result) = 2
        /\ \E k \in 1 .. 2 : \E i \in DOMAIN expenses :
              /\ expenses[i].category = result[k].category
              /\ expenses[i].amount # result[k].total_amount

\* result has at most one row, for the label value, with the sum of the
\* amounts listed under that label.
SummaryOfOneLabel(result, listed, label, value) ==
    /\ Len(result) <= 1
    /\ \A k \in 1 .. Len(result) :
          /\ result[k][label] = value
          /\ result[k].total_amount = ListedTotal(listed, label, value)

\* C12: with a filter label, any value other than None and the empty string
\* among them, every group summarize / summarize_income returns has exactly
\* that label: at most one row, its total the sum over the records in range
\* with that label.
C12_FilterKeepsOneLabel ==
    \A start \in Dates, end \in Dates :
        /\ \A v \in Categories \cup {EmptyStr} :
              SummaryOfOneLabel(summarize(start, end, [ category |-> v ]),
                                list_expenses(start, end), "category", v)
        /\ \A v \in Sources \cup {EmptyStr} :
              SummaryOfOneLabel(summarize_income(start, end, [ source |-> v ]),
                                list_income(start, end), "source", v)

\* The sum of the amounts of the listed records.
RECURSIVE ListedSum(_)
ListedSum(listed) ==
    IF Len(listed) = 0 THEN 0 ELSE Head(listed).amount + ListedSum(Tail(listed))

\* shown is x to two decimals: a whole number of hundredths, nearest to x.
ToTwoDecimals(shown, x) ==
    /\ shown % 10 = 0
    /\ shown - x <= 5
    /\ x - shown <= 5

\* C13: net_cashflow(d1, d2) reports, to two decimals, the sum of the income
\* amounts dated in [d1, d2] as total_income, the sum of the expense amounts
\* dated in [d1, d2] as total_expenses (0 for an empty side) and their
\* unrounded difference as net_cashflow; status is 'positive' exactly when that
\* difference is >= 0, zero included, and 'negative' otherwise.
C13_NetCashflowOfUnroundedSums ==
    \A start \in Dates, end \in Dates :
        LET result == net_cashflow(start, end)
            total_income == ListedSum(list_income(start, end))
            total_expenses == ListedSum(list_expenses(start, end))
        IN  /\ ToTwoDecimals(result.total_income, total_income)
            /\ ToTwoDecimals(result.total_expenses, total_expenses)
            /\ ToTwoDecimals(result.net_cashflow, total_income - total_expenses)
            /\ result.status \in {"positive", "negative"}
            /\ result.status = "positive" <=> total_income - total_expenses >= 0

\* Income and expenses that cancel out: a net of exactly zero.
C13_NetOfExactlyZero ==
    /\ income # << >>
    /\ expenses # << >>
    /\ ListedSum(list_income(<<1>>, <<2>>)) # 0
    /\ net_cashflow(<<1>>, <<2>>).net_cashflow = 0
    /\ net_cashflow(<<1>>, <<2>>).status = "positive"

\* C19: the status of every net_cashflow result agrees with the sign of the
\* reported, rounded net_cashflow: 'negative' only when the reported value is
\* strictly below zero, 'positive' only when it is zero or above.
C19_StatusAgreesWithReportedNet ==
    \A start \in Dates, end \in Dates :
        LET result == net_cashflow(start, end)
        IN  /\ result.status = "negative" => result.net_cashflow < 0
            /\ result.status = "positive" => result.net_cashflow >= 0

\* C19 as amended: 'negative' only when the reported net_cashflow is zero or
\* below, 'positive' only when it is zero or above.
C19_StatusNeverAgainstReportedNet ==
    \A start \in Dates, end \in Dates :
        LET result == net_cashflow(start, end)
        IN  /\ result.status = "negative" => result.net_cashflow <= 0
            /\ result.status = "positive" => result.net_cashflow >= 0

\* A net below zero that is reported as zero.
C19_NegativeNetReportedAsZero ==
    /\ net_cashflow(<<1>>, <<2>>).status = "negative"
    /\ net_cashflow(<<1>>, <<2>>).net_cashflow = 0

\* C14: the two ledgers are independent: an expense operation leaves the
\* income records and the income id counter as they were, an income operation
\* leaves the expense records and the expense id counter as they were; an
\* expense and an income record with the same id exist side by side and are
\* read, edited and deleted each on its own.
C14_LedgersAreIndependent ==
    [][ /\ last'.table = "expenses" =>
              /\ income' = income
              /\ sqlite_sequence'["income"] = sqlite_sequence["income"]
              /\ \A i \in DOMAIN income : get_income(i)' = get_income(i)
        /\ last'.table = "income" =>
              /\ expenses' = expenses
              /\ sqlite_sequence'["expenses"] = sqlite_sequence["expenses"]
              /\ \A i \in DOMAIN expenses : get_expense(i)' = get_expense(i) ]_vars

\* Income 1 deleted while expense 1, created beside it, is still there.
C14_SameIdInBothLedgers ==
    /\ last.op = "delete_income"
    /\ last.status = "ok"
    /\ last.id = 1
    /\ returned["expenses"] = {1}
    /\ get_expense(1).status = "ok"
    /\ get_income(1).status = "error"


----------------------------------------------------------------------------
(* Claims about the interleaved handlers (SpecConcurrent) *)

WriteOps == Adds \cup Edits \cup Deletes \cup {"bulk_delete_expenses"}

Finished(t, ops) == tasks[t].pc = "done" /\ tasks[t].op \in ops

CommitsOf(stmts) == Cardinality({ i \in DOMAIN stmts : stmts[i] = "commit" })

\* The statements hold one write, and the commit is the statement after it.
CommitFollowsWrite(stmts) ==
    \E i \in DOMAIN stmts :
        /\ stmts[i] \in {"INSERT", "UPDATE", "DELETE"}
        /\ i + 1 \in DOMAIN stmts
        /\ stmts[i + 1] = "commit"
        /\ \A j \in DOMAIN stmts : stmts[j] \in {"INSERT", "UPDATE", "DELETE"} => j = i

\* C15: every write operation (add, edit, delete, bulk delete, on either ledger)
\* that has returned status ok has committed exactly once, the commit came
\* right after its one write statement and before the return, and nothing of
\* its connection is left uncommitted.
C15_OkWriteHasCommittedOnce ==
    \A t \in DOMAIN tasks :
        (Finished(t, WriteOps) /\ tasks[t].result.status = "ok")
            => /\ CommitsOf(tasks[t].stmts) = 1
               /\ CommitFollowsWrite(tasks[t].stmts)
               /\ tasks[t].pending = << >>

\* C15 witness: an edit and a delete have both returned ok.
C15_EditAndDeleteReturnedOk ==
    \E t, u \in DOMAIN tasks :
        /\ Finished(t, Edits) /\ tasks[t].result.status = "ok"
        /\ Finished(u, Deletes) /\ tasks[u].result.status = "ok"

\* C16: an edit that has returned ok found a record with its id when its UPDATE
\* ran and changed it; an edit whose record a concurrent delete removed between
\* its SELECT and its UPDATE does not return ok.
C16_OkEditUpdatedItsRecord ==
    \A t \in DOMAIN tasks :
        (Finished(t, Edits) /\ tasks[t].result.status = "ok") => tasks[t].rowcount = 1

OnlyCreates == \A t \in DOMAIN tasks : tasks[t].op \in Adds

\* The creates on the table whose INSERT is committed.
CommittedCreates(table) ==
    { t \in DOMAIN tasks :
        tasks[t].op \in Adds /\ tasks[t].table = table /\ tasks[t].pc \in {"return", "done"} }

\* C17: while creates are the only calls, in every interleaving the ids they
\* have returned on one ledger are pairwise distinct, get(id) of a returned id
\* answers with the inputs of the call it was returned to, and each ledger
\* holds one record per committed create, creates with identical arguments
\* included.
C17_ConcurrentCreatesGetTheirOwnIds ==
    OnlyCreates =>
        /\ \A t, u \in DOMAIN tasks :
              (t # u /\ Finished(t, Adds) /\ Finished(u, Adds)
                     /\ tasks[t].table = tasks[u].table)
                  => tasks[t].result.id # tasks[u].result.id
        /\ \A t \in DOMAIN tasks :
              /\ Finished(t, {"add_expense"}) =>
                    get_expense(tasks[t].result.id) =
                        [ status |-> "ok",
                          expense |-> CreatedRecord(tasks[t].result.id, tasks[t].args,
                                                    ExpenseColumns) ]
              /\ Finished(t, {"add_income"}) =>
                    get_income(tasks[t].result.id) =
                        [ status |-> "ok",
                          income |-> CreatedRecord(tasks[t].result.id, tasks[t].args,
                                                   IncomeColumns) ]
        /\ Cardinality(DOMAIN expenses) = Cardinality(CommittedCreates("expenses"))
        /\ Cardinality(DOMAIN income) = Cardinality(CommittedCreates("income"))

\* C17 witness: two creates with identical arguments, the second of which
\* inserted, committed and returned while the first, already committed, had
\* not yet returned; two records are stored.
C17_RetriedCreateOvertakesTheFirst ==
    /\ Len(tasks) = 2
    /\ tasks[1].op = "add_expense" /\ tasks[2].op = "add_expense"
    /\ tasks[1].args = tasks[2].args
    /\ tasks[1].pc = "return"
    /\ tasks[2].pc = "done"
    /\ tasks[2].result.id = 2
    /\ Cardinality(DOMAIN expenses) = 2

\* C18: the two totals of a net_cashflow call are the totals of one state that
\* was the committed state at some moment between its income query and its
\* expense query.
C18_TotalsDescribeOneCommittedState ==
    \A t \in DOMAIN tasks :
        (tasks[t].op = "net_cashflow" /\ tasks[t].pc \in {"return", "done"})
            => <<tasks[t].total_income, tasks[t].total_expenses>> \in tasks[t].seen
====
